---- MODULE Spec2Model ----
(***************************************************************************)
(* A model of the rag command line (src/rag.go, src/cmd/srag/health.go):   *)
(* the scan, compute, search, get, serve and health commands and the       *)
(* library operations they call.  The operations of the library package   *)
(* rag/v1 (RAG, Server) follow their description in spec.md.               *)
(***************************************************************************)
EXTENDS Integers, Sequences, FiniteSets, TLC

\* ------------------------------------------------------------------ bounds
MaxTime == 12       \* clock values
MaxInflight == 2    \* concurrent requests
MaxLimit == 2       \* values of --limit
NumChunks == 2      \* chunk_index values of the one document modelled
PageSize == 1       \* page size of ChunksMissingEmbedding
MaxRuns == 2        \* compute invocations per behaviour
MaxFiles == 2       \* files visited by scan per behaviour

ChunkIdx == 1..NumChunks
Texts == {"t1", "t2"}
Models == {"m1", "m2"}
\* EMBEDDING_MODEL, the model the engine is configured with.
cfgModel == "m2"

\* ------------------------------------------------------------ chunk store
\* A vector is identified by the text and model it was computed from and
\* by the compute invocation whose provider call returned it.
NoVec == [of |-> "none", by |-> "none", run |-> 0]
Vec(t, m, n) == [of |-> t, by |-> m, run |-> n]
Absent == [present |-> FALSE, text |-> "none", emb |-> NoVec]

VARIABLES
    store,          \* chunk_index -> [present, text, emb]
    runNo,          \* compute invocations started
    syncPc,         \* "idle", "page", "embed", "write", "done"
    syncForce,      \* --force of the running invocation
    syncSkip,       \* skip_existing handed to ComputeEmbeddings
    syncTried,      \* chunks already paged in this invocation
    syncPage,       \* chunk -> text read for the current page
    syncVecs,       \* chunk -> vector returned, not yet written
    syncErr,        \* first error of this invocation
    syncCount,      \* chunks embedded by this invocation
    syncCalls,      \* provider calls of this invocation
    syncSubmitted,  \* chunks submitted to the provider by this invocation
    syncAtStart,    \* chunks stored when the invocation started
    last,           \* summary of the last finished invocation
    cleanPrev,      \* no text changed while the previous invocation ran or after it
    cleanCur,       \* no text changed since the current invocation started
    scanFile,       \* chunk texts the file holds, by chunk_index
    scanErr,        \* error the walk returned
    txDone,         \* rows written inside the open transaction
    filesDone,      \* files visited
    scanBefore      \* the stored rows when the last file was visited

syncVars == <<runNo, syncPc, syncForce, syncSkip, syncTried,
              syncPage, syncVecs, syncErr, syncCount, syncCalls, syncSubmitted,
              syncAtStart, last, cleanPrev>>
scanVars == <<scanFile, scanErr, txDone, filesDone, scanBefore>>
storeVars == <<store, cleanCur>>

VARIABLES
    hEnv,           \* how each dependency of health behaves
    hPc,            \* "storage", "embedding", "reranker", "completion", "done"
    hErr,           \* error healthCmd returned, "none" for nil
    hStage,         \* dependency whose check returned the error
    hProbed,        \* dependencies contacted
    hOut            \* the OK line was printed

healthVars == <<hEnv, hPc, hErr, hStage, hProbed, hOut>>

VARIABLES
    srvState,       \* "Created", "Listening", "ShuttingDown", "Stopped"
    sig,            \* ctx.Done() is closed (SIGINT or SIGTERM arrived)
    mainPc,         \* serveCmd: "open", "spawn", "start", "serving", "returned"
    goPc,           \* the goroutine: "none", "waiting", "draining", "exited"
    now,            \* the clock
    sdAt,           \* when closeCtx was made and s.Shutdown called, -1 before
    sdFrom,         \* state of the server when s.Shutdown was called
    inflight,       \* requests in flight
    forced,         \* connections closed by force
    serveErr        \* error serveCmd returned

serveVars == <<srvState, sig, mainPc, goPc, now, sdAt, sdFrom, inflight, forced,
               serveErr>>

VARIABLES
    qPc,            \* searchCmd: "start", "embed", "search", "rerank", "fetch",
                    \* "return", "done"
    qText,          \* the query argument
    qLimit,         \* --limit
    qN,             \* limit handed to QueryDocuments
    qCands,         \* chunks SimilaritySearch returned, nearest first
    qRanked,        \* chunks the reranker returned, best first
    qResult,        \* chunks QueryDocuments returned
    qErr,           \* error QueryDocuments returned
    qRerankFailed,  \* the reranker call failed
    qCliErr,        \* error searchCmd returned
    qPrinted,       \* the table was printed
    qRows           \* rows of the table

queryVars == <<qPc, qText, qLimit, qN, qCands, qRanked, qResult, qErr,
               qRerankFailed, qCliErr, qPrinted, qRows>>

VARIABLES
    cCmd,           \* the command main runs
    cIn,            \* its inputs: argument given, OpenDB works, operation works
    cPc,            \* "args", "open", "run", "exit", "exited"
    cErr,           \* error the Action returned
    cFailed,        \* the command's operation failed
    cPanic,         \* the Action panicked
    cLogged,        \* main logged an error
    cExit           \* exit code of the process, -1 while it runs

cliVars == <<cCmd, cIn, cPc, cErr, cFailed, cPanic, cLogged, cExit>>

otherThanStore == <<healthVars, serveVars, queryVars, cliVars>>
otherThanHealth == <<store, cleanCur, syncVars, scanVars, serveVars, queryVars, cliVars>>
otherThanServe == <<store, cleanCur, syncVars, scanVars, healthVars, queryVars, cliVars>>
otherThanQuery == <<store, cleanCur, syncVars, scanVars, healthVars, serveVars, cliVars>>
otherThanCli == <<store, cleanCur, syncVars, scanVars, healthVars, serveVars, queryVars>>

EmptyMap == [c \in {} |-> 0]
Present == {c \in ChunkIdx : store[c].present}
StoredTexts(s) == [c \in ChunkIdx |-> s[c].text]
StoredEmbs(s) == [c \in ChunkIdx |-> s[c].emb]

\* A chunk carries a valid embedding for `model`.
HasValidEmbedding(s, c, model) ==
    s[c].present /\ s[c].emb # NoVec /\ s[c].emb.by = model
Missing(s, model) ==
    {c \in ChunkIdx : s[c].present /\ ~HasValidEmbedding(s, c, model)}

\* ChunksMissingEmbedding, or every chunk in force mode.
Stale(s, model, skip) ==
    IF skip THEN Missing(s, model) ELSE {c \in ChunkIdx : s[c].present}

\* The pages ChunksMissingEmbedding may return: up to `limit` of the stale
\* chunks not yet paged (any order among equal updated_at).
Pages(s, model, skip, tried, limit) ==
    LET left == Stale(s, model, skip) \ tried
        n == IF Cardinality(left) < limit THEN Cardinality(left) ELSE limit
    IN {P \in SUBSET left : Cardinality(P) = n}

\* WriteEmbedding: one row, embedding and embedding_model only.
WriteEmbedding(s, c, v) == [s EXCEPT ![c].emb = v]

\* UpsertDocumentChunks on one row: the text is overwritten; a changed text
\* nulls the embedding.
UpsertRow(row, t) ==
    IF row.present /\ row.text = t THEN row
    ELSE [present |-> TRUE, text |-> t, emb |-> NoVec]
UpsertDocumentChunks(s, doc) ==
    [c \in ChunkIdx |-> IF c \in 1..Len(doc) THEN UpsertRow(s[c], doc[c]) ELSE s[c]]

\* ---------------------------------------------------------------- compute
SkipExistingInverted(force) == force
\* computeCmd: r.ComputeEmbeddings(ctx, !force)
SkipExisting(force) == ~force

NoRun == [valid |-> FALSE, force |-> FALSE, err |-> "none",
          embs |-> [c \in ChunkIdx |-> NoVec]]

SyncStart ==
    /\ syncPc = "idle"
    /\ runNo < MaxRuns
    /\ \E force \in BOOLEAN :
        /\ syncForce' = force
        /\ syncSkip' = SkipExisting(force)
    /\ runNo' = runNo + 1
    /\ syncPc' = "page"
    /\ syncTried' = {}
    /\ syncPage' = EmptyMap
    /\ syncVecs' = EmptyMap
    /\ syncErr' = "none"
    /\ syncCount' = 0
    /\ syncCalls' = 0
    /\ syncSubmitted' = {}
    /\ syncAtStart' = Present
    /\ cleanPrev' = cleanCur
    /\ cleanCur' = TRUE
    /\ UNCHANGED <<store, last>>
    /\ UNCHANGED scanVars
    /\ UNCHANGED otherThanStore

\* One call of ChunksMissingEmbedding; an empty page ends the invocation.
SyncReadPage ==
    /\ syncPc = "page"
    /\ \E P \in Pages(store, cfgModel, syncSkip, syncTried, PageSize) :
        IF P = {}
        THEN /\ syncPc' = "done"
             /\ syncPage' = EmptyMap
        ELSE /\ syncPc' = "embed"
             /\ syncPage' = [c \in P |-> store[c].text]
    /\ UNCHANGED <<store, cleanCur, runNo, syncForce, syncSkip,
                   syncTried, syncVecs, syncErr, syncCount, syncCalls,
                   syncSubmitted, syncAtStart, last, cleanPrev>>
    /\ UNCHANGED scanVars
    /\ UNCHANGED otherThanStore

\* The batched provider request for the page: vectors, a provider error or
\* a malformed response.  A failure aborts the batch.
SyncEmbed ==
    /\ syncPc = "embed"
    /\ syncCalls' = syncCalls + 1
    /\ syncSubmitted' = syncSubmitted \cup DOMAIN syncPage
    /\ \E outcome \in {"ok", "provider", "malformed"} :
        IF outcome = "ok"
        THEN /\ syncVecs' = [c \in DOMAIN syncPage |->
                                Vec(syncPage[c], cfgModel, runNo)]
             /\ syncPc' = "write"
             /\ UNCHANGED <<syncErr, syncTried, syncPage>>
        ELSE /\ syncErr' = IF syncErr = "none" THEN outcome ELSE syncErr
             /\ syncTried' = syncTried \cup DOMAIN syncPage
             /\ syncPage' = EmptyMap
             /\ syncPc' = "page"
             /\ UNCHANGED syncVecs
    /\ UNCHANGED <<store, cleanCur, runNo, syncForce, syncSkip,
                   syncCount, syncAtStart, last, cleanPrev>>
    /\ UNCHANGED scanVars
    /\ UNCHANGED otherThanStore

\* WriteEmbedding for one chunk of the batch.
SyncWrite ==
    /\ syncPc = "write"
    /\ \E c \in DOMAIN syncVecs :
        /\ store' = WriteEmbedding(store, c, syncVecs[c])
        /\ syncVecs' = [d \in DOMAIN syncVecs \ {c} |-> syncVecs[d]]
        /\ syncCount' = syncCount + 1
        /\ IF DOMAIN syncVecs = {c}
           THEN /\ syncPc' = "page"
                /\ syncTried' = syncTried \cup DOMAIN syncPage
                /\ syncPage' = EmptyMap
           ELSE UNCHANGED <<syncPc, syncTried, syncPage>>
    /\ UNCHANGED <<cleanCur, runNo, syncForce, syncSkip, syncErr,
                   syncCalls, syncSubmitted, syncAtStart, last, cleanPrev>>
    /\ UNCHANGED scanVars
    /\ UNCHANGED otherThanStore

\* ComputeEmbeddings returns (count, first error); the command ends.
SyncFinish ==
    /\ syncPc = "done"
    /\ syncPc' = "idle"
    /\ last' = [valid |-> TRUE, force |-> syncForce, err |-> syncErr,
                embs |-> StoredEmbs(store)]
    /\ UNCHANGED <<store, cleanCur, runNo, syncForce, syncSkip,
                   syncTried, syncPage, syncVecs, syncErr, syncCount, syncCalls,
                   syncSubmitted, syncAtStart, cleanPrev>>
    /\ UNCHANGED scanVars
    /\ UNCHANGED otherThanStore

\* ------------------------------------------------------------------- scan
\* The documents a *.chunks.json file may hold: chunk texts by chunk_index.
Docs == UNION {[1..n -> Texts] : n \in 1..NumChunks}

DecodedNothing(doc, n) == <<>>
\* scanCmd: var chunks rag.Document; decoder.Decode(&chunks) fills it with
\* the chunks of the file it could decode.
Decoded(doc, n) == SubSeq(doc, 1, n)

DecodeProceedsAlways(err) == TRUE
\* scanCmd: err = decoder.Decode(&chunks); if err != nil { return err }
DecodeProceeds(err) == err = "none"

\* The WalkDir callback of scanCmd for one directory entry.  A directory or
\* a name the glob does not match is skipped; os.ReadFile may fail;
\* decoder.Decode yields the whole document or fails (syntax error, unknown
\* field) with the chunks decoded before the failure left in the struct;
\* UpsertDocumentChunks runs in one transaction that either commits every
\* row or fails with a StorageError after `rows` rows and is rolled back.
ScanFile ==
    /\ filesDone < MaxFiles
    /\ scanErr = "none"
    /\ filesDone' = filesDone + 1
    /\ \E doc \in Docs, n \in 0..NumChunks, rows \in 0..NumChunks,
          outcome \in {"skip", "read", "decoded", "storage"} :
        /\ n <= Len(doc)
        /\ rows <= n
        /\ outcome \in {"skip", "read"} => n = 0
        /\ outcome # "storage" => rows = 0
        /\ LET err == IF n = Len(doc) THEN "none" ELSE "parse"
               upsert == outcome \in {"decoded", "storage"} /\ DecodeProceeds(err)
           IN /\ scanFile' = IF outcome = "skip" THEN <<>> ELSE doc
              /\ txDone' = IF upsert THEN rows ELSE 0
              /\ scanErr' = CASE outcome = "skip" -> "none"
                              [] outcome = "read" -> "read"
                              [] ~upsert -> err
                              [] outcome = "storage" -> "storage"
                              [] OTHER -> "none"
              /\ store' = IF upsert /\ outcome = "decoded"
                          THEN UpsertDocumentChunks(store, Decoded(doc, n))
                          ELSE store
    /\ scanBefore' = store
    /\ cleanCur' = (cleanCur /\ StoredTexts(store') = StoredTexts(store))
    /\ UNCHANGED syncVars
    /\ UNCHANGED otherThanStore

\* The scan command has returned its error; the next invocation starts.
ScanAgain ==
    /\ scanErr # "none"
    /\ filesDone < MaxFiles
    /\ scanErr' = "none"
    /\ UNCHANGED <<scanFile, txDone, filesDone, scanBefore>>
    /\ UNCHANGED storeVars
    /\ UNCHANGED syncVars
    /\ UNCHANGED otherThanStore

\* ----------------------------------------------------------------- health
Deps == <<"storage", "embedding", "reranker", "completion">>
DepSet == {Deps[i] : i \in 1..Len(Deps)}

\* What each dependency may do when healthCmd reaches it.
Outcomes(d) ==
    CASE d = "storage" -> {"ok", "dsn-empty", "open-error", "db-error", "ping-error"}
      [] d = "embedding" -> {"ok", "url-empty", "model-empty", "call-error", "empty-response"}
      [] d = "reranker" -> {"ok", "url-empty", "model-empty", "call-error"}
      [] d = "completion" -> {"ok", "url-empty", "model-empty", "call-error", "empty-response"}

\* The error healthCmd returns for an outcome other than "ok".
HealthError(d, o) ==
    CASE d = "storage" /\ o = "dsn-empty" -> "dsn is required"
      [] d = "storage" /\ o = "open-error" -> "rag.OpenDB error"
      [] d = "storage" /\ o = "db-error" -> "db.DB error"
      [] d = "storage" /\ o = "ping-error" -> "rawDB.Ping error"
      [] d = "embedding" /\ o = "url-empty" -> "embedding-base-url is required"
      [] d = "embedding" /\ o = "model-empty" -> "embedding-model is required"
      [] d = "embedding" /\ o = "call-error" -> "Embeddings.New error"
      [] d = "embedding" /\ o = "empty-response" -> "empty response"
      [] d = "reranker" /\ o = "url-empty" -> "reranker-base-url is required"
      [] d = "reranker" /\ o = "model-empty" -> "reranker-model is required"
      [] d = "reranker" /\ o = "call-error" -> "Rerank error"
      [] d = "completion" /\ o = "url-empty" -> "assistant-base-url is required"
      [] d = "completion" /\ o = "model-empty" -> "assistant-model is required"
      [] d = "completion" /\ o = "call-error" -> "Completions.New error"
      [] d = "completion" /\ o = "empty-response" -> "empty response"
      [] OTHER -> "none"

\* The outcomes in which the remote service is contacted at all.
Contacted(o) == o \in {"ok", "ping-error", "call-error", "empty-response"}

\* One check of healthCmd: return the error, or go on to the next check.
HealthCheck(d, next) ==
    /\ hPc = d
    /\ IF Contacted(hEnv[d]) THEN hProbed' = hProbed \cup {d} ELSE UNCHANGED hProbed
    /\ IF hEnv[d] = "ok"
       THEN /\ hPc' = next
            /\ UNCHANGED <<hErr, hStage>>
       ELSE /\ hPc' = "done"
            /\ hErr' = HealthError(d, hEnv[d])
            /\ hStage' = d
    /\ UNCHANGED <<hEnv, hOut>>
    /\ UNCHANGED otherThanHealth

HealthStorage == HealthCheck("storage", "embedding")

HealthEmbedding == HealthCheck("embedding", "reranker")

HealthReranker == HealthCheck("reranker", "completion")

HealthCompletion == HealthCheck("completion", "ok")

\* fmt.Println("OK, ..."); return nil
HealthOK ==
    /\ hPc = "ok"
    /\ hPc' = "done"
    /\ hOut' = TRUE
    /\ UNCHANGED <<hEnv, hErr, hStage, hProbed>>
    /\ UNCHANGED otherThanHealth

\* ------------------------------------------------------------------ serve
ShutdownTimeoutShort == 10 - 5
\* serveCmd: context.WithTimeout(context.Background(), 10*time.Second)
ShutdownTimeout == 10

\* SIGINT or SIGTERM: signal.NotifyContext cancels ctx, at any moment.
Signal ==
    /\ ~sig
    /\ sig' = TRUE
    /\ UNCHANGED <<srvState, mainPc, goPc, now, sdAt, sdFrom, inflight, forced,
                   serveErr>>
    /\ UNCHANGED otherThanServe

\* rag.OpenDB(dsn)
ServeOpen ==
    /\ mainPc = "open"
    /\ \E ok \in BOOLEAN :
        IF ok
        THEN /\ mainPc' = "spawn"
             /\ UNCHANGED serveErr
        ELSE /\ mainPc' = "returned"
             /\ serveErr' = "rag.OpenDB error"
    /\ UNCHANGED <<srvState, sig, goPc, now, sdAt, sdFrom, inflight, forced>>
    /\ UNCHANGED otherThanServe

\* s := rag.NewServer(r); go func() { select { case <-ctx.Done(): ... } }()
ServeSpawn ==
    /\ mainPc = "spawn"
    /\ mainPc' = "start"
    /\ goPc' = "waiting"
    /\ UNCHANGED <<srvState, sig, now, sdAt, sdFrom, inflight, forced, serveErr>>
    /\ UNCHANGED otherThanServe

\* err = s.Start(bind): Created -> Listening, or the listener cannot be
\* bound.  A server that was shut down before Start returns
\* http.ErrServerClosed at once, which serveCmd turns into nil.
ServeStart ==
    /\ mainPc = "start"
    /\ \/ /\ srvState = "Created"
          /\ \E bound \in BOOLEAN :
               IF bound
               THEN /\ srvState' = "Listening"
                    /\ mainPc' = "serving"
                    /\ UNCHANGED serveErr
               ELSE /\ mainPc' = "returned"
                    /\ serveErr' = "listen error"
                    /\ UNCHANGED srvState
       \/ /\ srvState = "Stopped"
          /\ mainPc' = "returned"
          /\ UNCHANGED <<srvState, serveErr>>
    /\ UNCHANGED <<sig, goPc, now, sdAt, sdFrom, inflight, forced>>
    /\ UNCHANGED otherThanServe

\* A connection is accepted; a request in flight completes.
Accept ==
    /\ srvState = "Listening"
    /\ inflight < MaxInflight
    /\ inflight' = inflight + 1
    /\ UNCHANGED <<srvState, sig, mainPc, goPc, now, sdAt, sdFrom, forced, serveErr>>
    /\ UNCHANGED otherThanServe

Complete ==
    /\ srvState \in {"Listening", "ShuttingDown"}
    /\ inflight > 0
    /\ inflight' = inflight - 1
    /\ UNCHANGED <<srvState, sig, mainPc, goPc, now, sdAt, sdFrom, forced, serveErr>>
    /\ UNCHANGED otherThanServe

ShutdownTriggeredAlways(done) == TRUE
\* serveCmd goroutine: select { case <-ctx.Done(): ... }
ShutdownTriggered(done) == done

\* The goroutine sees ctx.Done(), makes closeCtx and calls s.Shutdown.  On a
\* Listening server the drain begins.  A server Start has not reached yet
\* is closed for good: its listener is "already closed" when Start comes.
\* serveCmd drops the result (_ = s.Shutdown(closeCtx)).  Nothing of this
\* runs once main has returned.
GoShutdown ==
    /\ goPc = "waiting"
    /\ ShutdownTriggered(sig)
    /\ mainPc # "returned"
    /\ sdAt' = now
    /\ sdFrom' = srvState
    /\ \/ /\ srvState = "Listening"
          /\ srvState' = "ShuttingDown"
          /\ goPc' = "draining"
       \/ /\ srvState = "Created"
          /\ srvState' = "Stopped"
          /\ goPc' = "exited"
    /\ UNCHANGED <<sig, mainPc, now, inflight, forced, serveErr>>
    /\ UNCHANGED otherThanServe

\* The drain ends: no request is left in flight.
DrainComplete ==
    /\ srvState = "ShuttingDown"
    /\ inflight = 0
    /\ srvState' = "Stopped"
    /\ goPc' = "exited"
    /\ UNCHANGED <<sig, mainPc, now, sdAt, sdFrom, inflight, forced, serveErr>>
    /\ UNCHANGED otherThanServe

\* closeCtx expires: the remaining connections are closed by force.
DeadlineExpired ==
    /\ srvState = "ShuttingDown"
    /\ now = sdAt + ShutdownTimeout
    /\ srvState' = "Stopped"
    /\ forced' = inflight
    /\ inflight' = 0
    /\ goPc' = "exited"
    /\ UNCHANGED <<sig, mainPc, now, sdAt, sdFrom, serveErr>>
    /\ UNCHANGED otherThanServe

\* s.Start returns once the server is Stopped; nil and ErrServerClosed both
\* make serveCmd return nil.
ServeReturn ==
    /\ mainPc = "serving"
    /\ srvState = "Stopped"
    /\ mainPc' = "returned"
    /\ UNCHANGED <<srvState, sig, goPc, now, sdAt, sdFrom, inflight, forced, serveErr>>
    /\ UNCHANGED otherThanServe

\* Time passes, but not past the expiry of closeCtx while the drain runs.
Tick ==
    /\ now < MaxTime
    /\ ~(srvState = "ShuttingDown" /\ now >= sdAt + ShutdownTimeout)
    /\ now' = now + 1
    /\ UNCHANGED <<srvState, sig, mainPc, goPc, sdAt, sdFrom, inflight, forced,
                   serveErr>>
    /\ UNCHANGED otherThanServe

\* ----------------------------------------------------------------- search
\* The over-fetch multiplier C of the first stage.
OverFetch == 3

Max(a, b) == IF a >= b THEN a ELSE b
Min(a, b) == IF a <= b THEN a ELSE b
Take(seq, n) == SubSeq(seq, 1, Min(n, Len(seq)))

\* Sequences without repetition of exactly n members of S.
Arrangements(S, n) ==
    {q \in [1..n -> S] : \A i, j \in 1..n : q[i] = q[j] => i = j}

\* Chunks SimilaritySearch can find: those that carry a vector.
Searchable(s) == {c \in ChunkIdx : s[c].present /\ s[c].emb # NoVec}

\* SimilaritySearch(query_vector, k): the k nearest chunks, nearest first.
SimilaritySearch(s, k) ==
    Arrangements(Searchable(s), Min(Max(k, 0), Cardinality(Searchable(s))))

\* The reranker: candidates by descending score, ties in candidate order,
\* cut to top_n.
Rerank(cands, score, topN) ==
    Take(SelectSeq(cands, LAMBDA c : score[c] = 1) \o
         SelectSeq(cands, LAMBDA c : score[c] = 0), topN)

SearchLimitPlusOne(limit) == limit + 1
\* searchCmd: limit := command.Int("limit"); r.QueryDocuments(ctx, query, limit)
SearchLimit(limit) == limit

SearchReturnsNever(err) == FALSE
\* searchCmd: chunks, err := r.QueryDocuments(...); if err != nil { return err }
SearchReturnsError(err) == err # "none"

\* searchCmd up to the call of QueryDocuments.
SearchStart ==
    /\ qPc = "start"
    /\ \E dbOk \in BOOLEAN :
        IF qText = ""
        THEN /\ qCliErr' = "query is required"
             /\ qPc' = "done"
             /\ UNCHANGED qN
        ELSE IF ~dbOk
        THEN /\ qCliErr' = "rag.OpenDB error"
             /\ qPc' = "done"
             /\ UNCHANGED qN
        ELSE /\ qN' = SearchLimit(qLimit)
             /\ qPc' = "embed"
             /\ UNCHANGED qCliErr
    /\ UNCHANGED <<qText, qLimit, qCands, qRanked, qResult, qErr, qRerankFailed,
                   qPrinted, qRows>>
    /\ UNCHANGED otherThanQuery

\* Query step 2: embed the text; a provider failure or an empty vector is
\* an UpstreamError.
QueryEmbed ==
    /\ qPc = "embed"
    /\ \E outcome \in {"ok", "error", "empty"} :
        IF outcome = "ok"
        THEN /\ qPc' = "search"
             /\ UNCHANGED qErr
        ELSE /\ qPc' = "return"
             /\ qErr' = "embedding upstream error"
    /\ UNCHANGED <<qText, qLimit, qN, qCands, qRanked, qResult, qRerankFailed,
                   qCliErr, qPrinted, qRows>>
    /\ UNCHANGED otherThanQuery

\* Query steps 3 and 4: k_candidates = max(limit * C, limit) nearest chunks;
\* no candidate is an empty result, not an error.
QuerySearch ==
    /\ qPc = "search"
    /\ \E cands \in SimilaritySearch(store, Max(qN * OverFetch, qN)) :
        /\ qCands' = cands
        /\ qPc' = IF cands = <<>> THEN "return" ELSE "rerank"
    /\ UNCHANGED <<qText, qLimit, qN, qRanked, qResult, qErr, qRerankFailed,
                   qCliErr, qPrinted, qRows>>
    /\ UNCHANGED otherThanQuery

\* Query step 5: the reranker call; its failure is surfaced.
QueryRerank ==
    /\ qPc = "rerank"
    /\ \/ /\ qRerankFailed' = TRUE
          /\ qErr' = "rerank upstream error"
          /\ qPc' = "return"
          /\ UNCHANGED qRanked
       \/ \E score \in [ChunkIdx -> {0, 1}] :
            /\ qRanked' = Rerank(qCands, score, qN)
            /\ qPc' = "fetch"
            /\ UNCHANGED <<qErr, qRerankFailed>>
    /\ UNCHANGED <<qText, qLimit, qN, qCands, qResult, qCliErr, qPrinted, qRows>>
    /\ UNCHANGED otherThanQuery

\* Query step 6: GetChunk for every reranked candidate, in reranker order.
QueryFetch ==
    /\ qPc = "fetch"
    /\ \E ok \in BOOLEAN :
        IF ok
        THEN /\ qResult' = qRanked
             /\ UNCHANGED qErr
        ELSE /\ qErr' = "storage error"
             /\ UNCHANGED qResult
    /\ qPc' = "return"
    /\ UNCHANGED <<qText, qLimit, qN, qCands, qRanked, qRerankFailed, qCliErr,
                   qPrinted, qRows>>
    /\ UNCHANGED otherThanQuery

\* searchCmd after QueryDocuments: return the error, or print one row per
\* chunk and return nil.
SearchFinish ==
    /\ qPc = "return"
    /\ qPc' = "done"
    /\ IF SearchReturnsError(qErr)
       THEN /\ qCliErr' = qErr
            /\ UNCHANGED <<qPrinted, qRows>>
       ELSE /\ qPrinted' = TRUE
            /\ qRows' = Len(qResult)
            /\ UNCHANGED qCliErr
    /\ UNCHANGED <<qText, qLimit, qN, qCands, qRanked, qResult, qErr, qRerankFailed>>
    /\ UNCHANGED otherThanQuery

\* ------------------------------------------------------------------- main
Commands == {"serve", "scan", "compute", "search", "get"}

\* The argument each Action requires.
NeedsArg(c) == c \in {"scan", "search", "get"}

\* The Action checks its argument ("path is required", "query is required",
\* "id is required").
CliArgs ==
    /\ cPc = "args"
    /\ IF NeedsArg(cCmd) /\ ~cIn.arg
       THEN /\ cErr' = "argument is required"
            /\ cFailed' = TRUE
            /\ cPc' = "exit"
       ELSE /\ cPc' = "open"
            /\ UNCHANGED <<cErr, cFailed>>
    /\ UNCHANGED <<cCmd, cIn, cPanic, cLogged, cExit>>
    /\ UNCHANGED otherThanCli

\* db, err := rag.OpenDB(dsn); if err != nil { return err }
CliOpen ==
    /\ cPc = "open"
    /\ IF ~cIn.db
       THEN /\ cErr' = "rag.OpenDB error"
            /\ cFailed' = TRUE
            /\ cPc' = "exit"
       ELSE /\ cPc' = "run"
            /\ UNCHANGED <<cErr, cFailed>>
    /\ UNCHANGED <<cCmd, cIn, cPanic, cLogged, cExit>>
    /\ UNCHANGED otherThanCli

\* The operation of the command.  serve, scan, compute and search return
\* its error.  getChunkCmd drops the error of GetDocumentChunk, prints
\* c.Text and returns nil; when the lookup returned a nil chunk, c.Text
\* panics.
CliRun ==
    /\ cPc = "run"
    /\ cPc' = "exit"
    /\ cFailed' = ~cIn.op
    /\ IF cCmd = "get"
       THEN /\ cErr' = "none"
            /\ cPanic' = (~cIn.op /\ cIn.nilChunk)
       ELSE /\ cErr' = IF cIn.op THEN "none" ELSE "operation error"
            /\ UNCHANGED cPanic
    /\ UNCHANGED <<cCmd, cIn, cLogged, cExit>>
    /\ UNCHANGED otherThanCli

\* main: err := cmd.Run(ctx, os.Args); if err != nil { log.Error()... };
\* main returns, so the process exits with code 0.  A panic ends the
\* process with code 2 and logs nothing.
CliExit ==
    /\ cPc = "exit"
    /\ cPc' = "exited"
    /\ IF cPanic
       THEN /\ cExit' = 2
            /\ UNCHANGED cLogged
       ELSE /\ cExit' = 0
            /\ cLogged' = (cErr # "none")
    /\ UNCHANGED <<cCmd, cIn, cErr, cFailed, cPanic>>
    /\ UNCHANGED otherThanCli

\* ---------------------------------------------------------- specification
InitRows ==
    {Absent} \cup
    {[present |-> TRUE, text |-> "t1", emb |-> e] :
        e \in {NoVec} \cup {Vec("t1", m, 0) : m \in Models}}

AnyStore == store \in [ChunkIdx -> InitRows]
OneStore == store = [c \in ChunkIdx |-> [present |-> TRUE, text |-> "t1", emb |-> NoVec]]

IdleStore ==
    /\ runNo = 0
    /\ syncPc = "idle"
    /\ syncForce = FALSE
    /\ syncSkip = TRUE
    /\ syncTried = {}
    /\ syncPage = EmptyMap
    /\ syncVecs = EmptyMap
    /\ syncErr = "none"
    /\ syncCount = 0
    /\ syncCalls = 0
    /\ syncSubmitted = {}
    /\ syncAtStart = {}
    /\ last = NoRun
    /\ cleanPrev = TRUE
    /\ cleanCur = TRUE
    /\ scanFile = <<>>
    /\ scanErr = "none"
    /\ txDone = 0
    /\ filesDone = 0
    /\ scanBefore = store

AllOk == [d \in DepSet |-> "ok"]
Envs == {e \in [DepSet -> UNION {Outcomes(d) : d \in DepSet}] :
            \A d \in DepSet : e[d] \in Outcomes(d)}

IdleHealth ==
    /\ hPc = "storage"
    /\ hErr = "none"
    /\ hStage = "none"
    /\ hProbed = {}
    /\ hOut = FALSE

IdleServe ==
    /\ srvState = "Created"
    /\ sig = FALSE
    /\ mainPc = "open"
    /\ goPc = "none"
    /\ now = 0
    /\ sdAt = -1
    /\ sdFrom = "none"
    /\ inflight = 0
    /\ forced = 0
    /\ serveErr = "none"

IdleQuery ==
    /\ qPc = "start"
    /\ qN = 0
    /\ qCands = <<>>
    /\ qRanked = <<>>
    /\ qResult = <<>>
    /\ qErr = "none"
    /\ qRerankFailed = FALSE
    /\ qCliErr = "none"
    /\ qPrinted = FALSE
    /\ qRows = 0

OneQuery ==
    /\ qText = "q"
    /\ qLimit = 1

IdleCli ==
    /\ cPc = "args"
    /\ cErr = "none"
    /\ cFailed = FALSE
    /\ cPanic = FALSE
    /\ cLogged = FALSE
    /\ cExit = -1

CliInputs == [arg : BOOLEAN, db : BOOLEAN, op : BOOLEAN, nilChunk : BOOLEAN]

OneCli ==
    /\ cCmd = "compute"
    /\ cIn = [arg |-> TRUE, db |-> TRUE, op |-> TRUE, nilChunk |-> FALSE]

Init ==
    /\ AnyStore
    /\ IdleStore
    /\ hEnv = AllOk
    /\ IdleHealth
    /\ IdleServe
    /\ OneQuery
    /\ IdleQuery
    /\ OneCli
    /\ IdleCli

vars == <<store, cleanCur, syncVars, scanVars, healthVars, serveVars, queryVars,
          cliVars>>

Next ==
    \/ SyncStart
    \/ SyncReadPage
    \/ SyncEmbed
    \/ SyncWrite
    \/ SyncFinish
    \/ ScanFile
    \/ ScanAgain

Spec == Init /\ [][Next]_vars

\* A compute command and scan commands running at the same time on a store
\* an earlier scan has filled.
InitRace ==
    /\ OneStore
    /\ IdleStore
    /\ hEnv = AllOk
    /\ IdleHealth
    /\ IdleServe
    /\ OneQuery
    /\ IdleQuery
    /\ OneCli
    /\ IdleCli

SpecRace == InitRace /\ [][Next]_vars

\* The compute command alone, and the scan command alone.
NextCompute ==
    \/ SyncStart
    \/ SyncReadPage
    \/ SyncEmbed
    \/ SyncWrite
    \/ SyncFinish

SpecCompute == Init /\ [][NextCompute]_vars

NextScan ==
    \/ ScanFile
    \/ ScanAgain

SpecScan == Init /\ [][NextScan]_vars

\* The health command, for every behaviour of its four dependencies.
InitHealth ==
    /\ OneStore
    /\ IdleStore
    /\ hEnv \in Envs
    /\ IdleHealth
    /\ IdleServe
    /\ OneQuery
    /\ IdleQuery
    /\ OneCli
    /\ IdleCli

NextHealth ==
    \/ HealthStorage
    \/ HealthEmbedding
    \/ HealthReranker
    \/ HealthCompletion
    \/ HealthOK

SpecHealth == InitHealth /\ [][NextHealth]_vars

\* The serve command.
InitServe ==
    /\ OneStore
    /\ IdleStore
    /\ hEnv = AllOk
    /\ IdleHealth
    /\ IdleServe
    /\ OneQuery
    /\ IdleQuery
    /\ OneCli
    /\ IdleCli

NextServe ==
    \/ Signal
    \/ ServeOpen
    \/ ServeSpawn
    \/ ServeStart
    \/ Accept
    \/ Complete
    \/ GoShutdown
    \/ DrainComplete
    \/ DeadlineExpired
    \/ ServeReturn
    \/ Tick

SpecServe == InitServe /\ [][NextServe]_vars

\* The search command, for every store, query text and limit.
InitQuery ==
    /\ AnyStore
    /\ IdleStore
    /\ hEnv = AllOk
    /\ IdleHealth
    /\ IdleServe
    /\ qText \in {"", "q"}
    /\ qLimit \in 0..MaxLimit
    /\ IdleQuery
    /\ OneCli
    /\ IdleCli

NextQuery ==
    \/ SearchStart
    \/ QueryEmbed
    \/ QuerySearch
    \/ QueryRerank
    \/ QueryFetch
    \/ SearchFinish

SpecQuery == InitQuery /\ [][NextQuery]_vars

\* main, for every command and every outcome of its steps.
InitCli ==
    /\ OneStore
    /\ IdleStore
    /\ hEnv = AllOk
    /\ IdleHealth
    /\ IdleServe
    /\ OneQuery
    /\ IdleQuery
    /\ cCmd \in Commands
    /\ cIn \in CliInputs
    /\ IdleCli

NextCli ==
    \/ CliArgs
    \/ CliOpen
    \/ CliRun
    \/ CliExit

SpecCli == InitCli /\ [][NextCli]_vars

\* ------------------------------------------------------------ compute: claims
\* The invocation that just ended and the one before it both ran without
\* --force, and no chunk text changed since the earlier one started.
TwoPlainRuns ==
    /\ syncPc = "done"
    /\ last.valid
    /\ ~last.force
    /\ ~syncForce
    /\ cleanPrev
    /\ cleanCur

SecondRunIdle ==
    /\ syncCalls = 0
    /\ StoredEmbs(store) = last.embs

C2_NoRollbackNoRewrite ==
    [][(~syncForce' /\ StoredTexts(store') = StoredTexts(store)) =>
          /\ \A c \in ChunkIdx :
                HasValidEmbedding(store, c, cfgModel) => store'[c].emb = store[c].emb
          /\ Cardinality(Missing(store', cfgModel)) <= Cardinality(Missing(store, cfgModel))
      ]_vars

\* A retry after a failed invocation: the first run committed a batch and
\* reported an error, the second run has embedded a further chunk.
C2_Witness ==
    /\ runNo = 2
    /\ ~syncForce
    /\ ~last.force
    /\ last.valid
    /\ last.err # "none"
    /\ syncCount > 0
    /\ \E c \in ChunkIdx : store[c].emb.run = 1

\* C3: a compute invocation with --force has, when it ends, submitted every
\* chunk that was stored when it started to the embedding provider, the
\* chunks with a valid embedding included.
C3_ForceCoversAll ==
    (syncPc = "done" /\ syncForce) => syncAtStart \subseteq syncSubmitted

\* A forced invocation ended having submitted a chunk that still carries the
\* valid embedding it had before.
C3_Witness ==
    /\ syncPc = "done"
    /\ syncForce
    /\ \E c \in syncSubmitted : store[c].emb = Vec("t1", cfgModel, 0)

\* --------------------------------------------------------------- scan: claims
AllStored(s, doc) ==
    \A i \in 1..Len(doc) : s[i].present /\ s[i].text = doc[i]

\* C9: every step of scan leaves the stored rows as they were, or ends with
\* every chunk of the file's document stored and no error; after a read,
\* parse or storage failure nothing of the document is stored.
C9_AllOrNothing ==
    [][\/ store' = store
       \/ scanErr' = "none" /\ AllStored(store', scanFile')
      ]_vars

\* The upsert of a two-chunk document failed after a row was written.
C9_Witness ==
    /\ scanErr = "storage"
    /\ txDone >= 1
    /\ Len(scanFile) >= 2

\* The file's text of chunk c differs from the text stored for it (or the
\* chunk is not stored yet).
TextChanged(s, doc, c) ==
    c \in 1..Len(doc) /\ (~s[c].present \/ s[c].text # doc[c])

\* C11: an upsert that commits leaves every chunk whose text the document
\* does not change exactly as it was, embedding included, and leaves every
\* chunk whose text it changes with the new text and a null embedding: with
\* no text changed no embedding changes, with one text changed only that
\* chunk's embedding becomes null.
C11_UpsertFrame ==
    [][(filesDone' = filesDone + 1 /\ scanErr' = "none") =>
          \A c \in ChunkIdx :
              IF TextChanged(store, scanFile', c)
              THEN store'[c].text = scanFile'[c] /\ store'[c].emb = NoVec
              ELSE store'[c] = store[c]
      ]_vars

\* A document was re-ingested with one chunk's text changed and another's
\* unchanged, both embedded before: the first lost its embedding, the
\* second kept it.
C11_Witness ==
    /\ scanErr = "none"
    /\ \E c, d \in 1..Len(scanFile) :
        /\ c # d
        /\ scanBefore[c].present /\ scanBefore[c].emb # NoVec
        /\ scanBefore[c].text # scanFile[c]
        /\ store[c].emb = NoVec
        /\ scanBefore[d].present /\ scanBefore[d].emb # NoVec
        /\ scanBefore[d].text = scanFile[d]
        /\ store[d].emb = scanBefore[d].emb

\* C12: whatever the interleaving of a running Sync with an upsert that
\* changes a chunk's text, every stored embedding that is not null is a
\* vector computed from the text the chunk holds now.
C12_EmbeddingOfCurrentText ==
    \A c \in ChunkIdx :
        (store[c].present /\ store[c].emb # NoVec) => store[c].emb.of = store[c].text

\* ------------------------------------------------------------- health: claims
Failing(env) == {i \in 1..Len(Deps) : env[Deps[i]] # "ok"}
FirstFailing(env) ==
    IF Failing(env) = {} THEN "none"
    ELSE Deps[CHOOSE i \in Failing(env) : \A j \in Failing(env) : i <= j]

\* The dependencies whose check can return the error `err`.
ChecksReturning(err) ==
    {d \in DepSet : \E o \in Outcomes(d) \ {"ok"} : HealthError(d, o) = err}

\* C4: health succeeds only if all four dependencies pass, and otherwise
\* returns an error that identifies the earliest failing dependency in the
\* order storage, embedding, reranker, completion, and no other.
C4_TaggedFirstFailure ==
    hPc = "done" =>
        IF FirstFailing(hEnv) = "none"
        THEN hErr = "none" /\ hOut
        ELSE /\ hErr # "none"
             /\ ~hOut
             /\ ChecksReturning(hErr) = {FirstFailing(hEnv)}

\* The part of C4 the code keeps: the checks run in order and stop at the
\* first failure, whose check is the one that returns.
HealthFailFast ==
    hPc = "done" =>
        /\ hStage = FirstFailing(hEnv)
        /\ (hErr = "none") = (FirstFailing(hEnv) = "none")
        /\ hOut = (FirstFailing(hEnv) = "none")
        /\ \A i \in 1..Len(Deps) :
              Deps[i] \in hProbed => \A j \in Failing(hEnv) : i <= j

\* -------------------------------------------------------------- serve: claims
Forward ==
    {<<"Created", "Listening">>, <<"Listening", "ShuttingDown">>,
     <<"ShuttingDown", "Stopped">>}

\* C5 (as stated): the server's state only moves along Created, Listening,
\* ShuttingDown, Stopped, one state at a time, and the server is never
\* Listening once s.Shutdown has been called, also when the signal arrives
\* before Start has begun to listen.
C5_ForwardOnly ==
    [][/\ srvState' # srvState => <<srvState, srvState'>> \in Forward
       /\ sdAt' >= 0 => srvState' # "Listening"
      ]_vars

\* C5 (amended): the same, except that a server still Created when the
\* shutdown signal has arrived goes directly to Stopped.
C5_ForwardOrClosedEarly ==
    [][/\ srvState' # srvState =>
            \/ <<srvState, srvState'>> \in Forward
            \/ <<srvState, srvState'>> = <<"Created", "Stopped">> /\ sig
       /\ sdAt' >= 0 => srvState' # "Listening"
      ]_vars

\* The signal came before Start: the server was closed while Created and
\* Start returned without an error.
C5_Witness ==
    /\ sdFrom = "Created"
    /\ srvState = "Stopped"
    /\ mainPc = "returned"
    /\ serveErr = "none"

C7_RerankFailureSurfaces ==
    (qPc = "done" /\ qRerankFailed) =>
        /\ qCliErr = "rerank upstream error"
        /\ qResult = <<>>
        /\ ~qPrinted

\* The reranker failed with two candidates at hand in similarity order.
C7_Witness ==
    /\ qPc = "done"
    /\ qRerankFailed
    /\ Len(qCands) >= 2

\* C8: a successful search with a non-empty text and --limit N prints at
\* most N chunks, and fewer than N only when SimilaritySearch found fewer
\* than N candidates.
C8_LimitRespected ==
    (qPc = "done" /\ qCliErr = "none") =>
        /\ qPrinted
        /\ qRows = Len(qResult)
        /\ qRows <= qLimit
        /\ qRows < qLimit => Len(qCands) < qLimit

\* More candidates than the limit were found and exactly N were printed.
C8_Witness ==
    /\ qPc = "done"
    /\ qCliErr = "none"
    /\ qLimit >= 1
    /\ Len(qCands) > qLimit
    /\ qRows = qLimit

\* --------------------------------------------------------------- main: claims
\* C10: a command ends the process with exit code 0 when its operation
\* succeeded, and with a non-zero exit code and a logged error when it
\* failed, a failed chunk lookup of get included.
C10_ExitCodes ==
    cPc = "exited" =>
        IF cFailed THEN cExit # 0 /\ cLogged ELSE cExit = 0

====
